---- MODULE Spec2Model ----
(***************************************************************************)
(* Model of src/main.py: build_transitive_graph, the iterative DFS that    *)
(* builds the transitive dependency graph, records cycles and emits the    *)
(* post-order load order, together with the provider get_direct_deps and   *)
(* the filter should_skip it uses.                                         *)
(*                                                                         *)
(* Identifiers (Python str) are sequences of one-character strings, so     *)
(* that lower(), strip(), split(":") and the substring test are computed.  *)
(***************************************************************************)
EXTENDS Integers, Sequences, FiniteSets, TLC

VARIABLES
    mode,           \* "test" | "remote" | "local"            (argument)
    version,        \* default version                         (argument)
    filter_substr,  \* None or a string                        (argument)
    fixture,        \* the file at `repo` in test mode: [readable, map]
    poms,           \* POM path -> Fetched(deps) or FetchError (remote/local)
    start,          \* start_coord.strip()
    test_repo_map,  \* dict loaded from the fixture
    graph,          \* defaultdict(set): node -> set of recorded entries
    visited,        \* set
    in_stack,       \* set
    cycles,         \* list of lists
    load_order,     \* list
    stack,          \* list of frames (node, iterator over its dependency list)
    pc,             \* "start" | "loop" | "done" | "raised"
    fetchLog,       \* observer: arguments of the calls of get_direct_deps, in order
    taken           \* observer: edges <<u, v>> taken that were neither excluded nor back-edges

vars == <<mode, version, filter_substr, fixture, poms, start, test_repo_map, graph,
          visited, in_stack, cycles, load_order, stack, pc, fetchLog, taken>>

(***************************************************************************)
(* Bounds of the model.                                                    *)
(***************************************************************************)
\* total number of entries over all dependency lists of one dependency source
MaxEdges == 3

(***************************************************************************)
(* Strings.                                                                *)
(***************************************************************************)
\* Python's None: no string of the model equals it (a string is a sequence of
\* one-character strings)
None == <<"None">>

\* outcome of fetching and parsing one POM: the dependency list, or an exception
Fetched(ds) == [ok |-> TRUE, deps |-> ds]
FetchError == [ok |-> FALSE, deps |-> <<>>]

\* str.lower() on the alphabet of the model
LowerChar(c) ==
    CASE c = "A" -> "a"
      [] c = "B" -> "b"
      [] c = "C" -> "c"
      [] c = "G" -> "g"
      [] OTHER -> c

Lower(s) == [i \in 1..Len(s) |-> LowerChar(s[i])]

\* Python `s in t` for strings
IsSubstr(s, t) ==
    \E i \in 0..(Len(t) - Len(s)) : SubSeq(t, i + 1, i + Len(s)) = s

\* str.strip()
RECURSIVE LStrip(_)
LStrip(s) == IF s # <<>> /\ Head(s) = " " THEN LStrip(Tail(s)) ELSE s

RECURSIVE RStrip(_)
RStrip(s) ==
    IF s # <<>> /\ s[Len(s)] = " " THEN RStrip(SubSeq(s, 1, Len(s) - 1)) ELSE s

Strip(s) == RStrip(LStrip(s))

HasColon(s) == \E i \in 1..Len(s) : s[i] = ":"

\* str.split(":")
RECURSIVE Split(_)
Split(s) ==
    IF ~HasColon(s) THEN <<s>>
    ELSE LET i == CHOOSE k \in 1..Len(s) :
                      s[k] = ":" /\ \A j \in 1..(k - 1) : s[j] # ":"
         IN  <<SubSeq(s, 1, i - 1)>> \o Split(SubSeq(s, i + 1, Len(s)))

\* str.replace(".", "/")
DotsToSlashes(s) == [i \in 1..Len(s) |-> IF s[i] = "." THEN "/" ELSE s[i]]

\* the suffix that marks an excluded neighbour in graph
SkippedSuffix == <<" ", "(", "s", "k", "i", "p", "p", "e", "d", ")">>

(***************************************************************************)
(* should_skip                                                             *)
(***************************************************************************)
\* variant: the substring test without lower()
should_skip_CaseSensitive(name, flt) ==
    IF flt = None \/ flt = <<>> THEN FALSE
    ELSE IsSubstr(flt, name)

should_skip(name, flt) ==
    IF flt = None \/ flt = <<>> THEN FALSE
    ELSE IsSubstr(Lower(flt), Lower(name))

(***************************************************************************)
(* get_direct_deps and what it reads.                                      *)
(***************************************************************************)
\* --repo of the remote/local modes
Repo == <<"r">>

build_pom_path(group_id, artifact_id, ver) ==
    Repo \o <<"/">> \o DotsToSlashes(group_id) \o <<"/">> \o artifact_id \o <<"/">>
         \o ver \o <<"/">> \o artifact_id \o <<"-">> \o ver \o <<".", "p", "o", "m">>

\* the POM path get_direct_deps asks for, for a coordinate that has a colon
PomPathOf(coord, defaultVersion) ==
    LET parts == Split(coord)
        ver   == IF Len(parts) >= 3 /\ parts[3] # <<>> THEN parts[3] ELSE defaultVersion
    IN  build_pom_path(parts[1], parts[2], ver)

get_direct_deps(coord, md, map, store, defaultVersion) ==
    IF md = "test"
    THEN IF coord \in DOMAIN map THEN map[coord] ELSE <<>>
    ELSE IF ~HasColon(coord) THEN <<>>
    ELSE LET path == PomPathOf(coord, defaultVersion)
         IN  IF path \in DOMAIN store /\ store[path].ok
             THEN store[path].deps
             ELSE <<>>

(***************************************************************************)
(* Inputs: the arguments and the dependency source.                        *)
(***************************************************************************)
Modes == {"test", "remote", "local"}

\* keys and tokens of the fixture file of test mode
TestKeys == {<<"a">>, <<"A", "b">>, <<"c">>}

\* coordinates of the POMs of the remote/local modes
PomCoords == {<<"g", ":", "a">>, <<"g", ":", "a", ":", "1">>,
              <<"g", ":", "A", "b", ":", "1">>}

Versions == {<<>>, <<"1">>}

Filters == {None, <<"B">>, <<"A">>}

StartCoords(md) ==
    IF md = "test" THEN TestKeys \cup {<<" ", "a", " ">>}
    ELSE PomCoords \cup {<<"c">>}

DepLists(T, n) == UNION {[1..k -> T] : k \in 0..n}

\* load_test_repo: what a readable fixture file parses to. A key of K is absent
\* or has a list of tokens; the lists hold at most `budget` entries together
RECURSIVE FixtureMapsOver(_, _)
FixtureMapsOver(K, budget) ==
    IF K = {} THEN {<<>>}
    ELSE LET k == CHOOSE x \in K : TRUE
         IN  FixtureMapsOver(K \ {k}, budget)
             \cup UNION {{(k :> ds) @@ rest :
                            rest \in FixtureMapsOver(K \ {k}, budget - Len(ds))} :
                         ds \in DepLists(TestKeys, budget)}

FixtureMaps == FixtureMapsOver(TestKeys, MaxEdges)

NoFixture == [readable |-> FALSE, map |-> <<>>]

Fixtures == {NoFixture} \cup {[readable |-> TRUE, map |-> m] : m \in FixtureMaps}

PomPaths(ver) == {PomPathOf(c, ver) : c \in PomCoords}

\* fetch_pom_remote / fetch_pom_local followed by parse_pom_direct_deps: every
\* path of P gives a dependency list or raises; at most `budget` entries together
RECURSIVE PomStoresOver(_, _)
PomStoresOver(P, budget) ==
    IF P = {} THEN {<<>>}
    ELSE LET p == CHOOSE x \in P : TRUE
         IN  UNION {{(p :> r) @@ rest :
                       rest \in PomStoresOver(P \ {p}, budget - Len(r.deps))} :
                    r \in {Fetched(ds) : ds \in DepLists(PomCoords, budget)}
                          \cup {FetchError}}

PomStores == [ver \in Versions |-> PomStoresOver(PomPaths(ver), MaxEdges)]

Init ==
    /\ mode \in Modes
    /\ version \in (IF mode = "test" THEN {<<>>} ELSE Versions)
    /\ fixture \in (IF mode = "test" THEN Fixtures ELSE {NoFixture})
    /\ poms \in (IF mode = "test" THEN {<<>>} ELSE PomStores[version])
    /\ filter_substr \in Filters
    /\ start \in {Strip(sc) : sc \in StartCoords(mode)}
    /\ test_repo_map = <<>>
    /\ graph = <<>>
    /\ visited = {}
    /\ in_stack = {}
    /\ cycles = <<>>
    /\ load_order = <<>>
    /\ stack = <<>>
    /\ pc = "start"
    /\ fetchLog = <<>>
    /\ taken = {}

(***************************************************************************)
(* build_transitive_graph                                                  *)
(***************************************************************************)
skip(name) == should_skip(name, filter_substr)

\* get_direct_deps as the closure sees it once the fixture is loaded
deps_of(coord, map) == get_direct_deps(coord, mode, map, poms, version)

\* a frame (node, iter(deps)): pos items of deps are consumed
Frame(n, ds) == [node |-> n, deps |-> ds, pos |-> 0]

Top == stack[Len(stack)]
HasNext == Top.pos < Len(Top.deps)
Nbr == Top.deps[Top.pos + 1]

\* variant: the iterator is advanced twice
Advance_SkipsOne(st) == [st EXCEPT ![Len(st)].pos = @ + 2]

\* next(nbr_iter) on the top frame
Advance(st) == [st EXCEPT ![Len(st)].pos = @ + 1]

\* variant: the edge is recorded in the opposite direction
AddEdge_Reversed(g, node, entry) ==
    IF entry \in DOMAIN g THEN [g EXCEPT ![entry] = @ \cup {node}]
    ELSE g @@ (entry :> {node})

\* variant: the defaultdict is also read at the entry, which creates its key
AddEdge_TouchesTarget(g, node, entry) ==
    LET h == IF node \in DOMAIN g THEN [g EXCEPT ![node] = @ \cup {entry}]
             ELSE g @@ (node :> {entry})
    IN  IF entry \in DOMAIN h THEN h ELSE h @@ (entry :> {})

\* graph[node].add(entry) on a defaultdict(set)
AddEdge(g, node, entry) ==
    IF node \in DOMAIN g THEN [g EXCEPT ![node] = @ \cup {entry}]
    ELSE g @@ (node :> {entry})

\* nbr + " (skipped)"
\* variant: the excluded neighbour recorded without the suffix
ExcludedEntry_Plain(nbr) == nbr

ExcludedEntry(nbr) == nbr \o SkippedSuffix

\* the tests `nbr in in_stack` and `nbr in visited`
OnStack(nbr) == nbr \in in_stack
\* variant: the `nbr in visited` test is missing
AlreadyVisited_Never(nbr) == FALSE

AlreadyVisited(nbr) == nbr \in visited

\* variant: the frame stays on the stack
PopFrame_Keep(st) == st

\* stack.pop()
PopFrame(st) == SubSeq(st, 1, Len(st) - 1)

\* variant: the node stays in in_stack
Discard_Nothing(s, node) == s

\* in_stack.discard(node)
Discard(s, node) == s \ {node}

\* variant: the node is not added to visited
MarkVisited_Nothing(s, node) == s

\* visited.add(node)
MarkVisited(s, node) == s \cup {node}

\* variant: the node is put at the front of load_order
Emit_Prepend(lo, node) == <<node>> \o lo

\* load_order.append(node)
Emit(lo, node) == Append(lo, node)

PathNodes(st) == [i \in 1..Len(st) |-> st[i].node]

\* variant: the whole stack is taken, not the suffix from nbr
CyclePath_WholeStack(path_nodes, nbr) == path_nodes \o <<nbr>>

\* variant: the path is not closed with nbr
CyclePath_Open(path_nodes, nbr) ==
    LET idx == CHOOSE i \in 1..Len(path_nodes) :
                   path_nodes[i] = nbr /\ \A j \in 1..(i - 1) : path_nodes[j] # nbr
    IN  SubSeq(path_nodes, idx, Len(path_nodes))

\* path_nodes[path_nodes.index(nbr):] + [nbr]
CyclePath(path_nodes, nbr) ==
    LET idx == CHOOSE i \in 1..Len(path_nodes) :
                   path_nodes[i] = nbr /\ \A j \in 1..(i - 1) : path_nodes[j] # nbr
    IN  SubSeq(path_nodes, idx, Len(path_nodes)) \o <<nbr>>

\* variant: the missing fixture is taken for an empty one and the call returns
LoadFixtureFails_Swallowed ==
    /\ pc = "start"
    /\ mode = "test"
    /\ ~fixture.readable
    /\ pc' = "done"
    /\ UNCHANGED <<mode, version, filter_substr, fixture, poms, start, test_repo_map,
                   graph, visited, in_stack, cycles, load_order, stack, fetchLog, taken>>

\* mode == "test" and load_test_repo raises: the call ends with the exception
LoadFixtureFails ==
    /\ pc = "start"
    /\ mode = "test"
    /\ ~fixture.readable
    /\ pc' = "raised"
    /\ UNCHANGED <<mode, version, filter_substr, fixture, poms, start, test_repo_map,
                   graph, visited, in_stack, cycles, load_order, stack, fetchLog, taken>>

LoadedMap == IF mode = "test" THEN fixture.map ELSE <<>>

\* should_skip(start): return the empty results
FilteredRoot ==
    /\ pc = "start"
    /\ mode = "test" => fixture.readable
    /\ skip(start)
    /\ test_repo_map' = LoadedMap
    /\ pc' = "done"
    /\ UNCHANGED <<mode, version, filter_substr, fixture, poms, start,
                   graph, visited, in_stack, cycles, load_order, stack, fetchLog, taken>>

\* stack.append((start, iter(get_direct_deps(start)))); in_stack.add(start)
PushStart ==
    /\ pc = "start"
    /\ mode = "test" => fixture.readable
    /\ ~skip(start)
    /\ test_repo_map' = LoadedMap
    /\ stack' = <<Frame(start, deps_of(start, LoadedMap))>>
    /\ fetchLog' = Append(fetchLog, start)
    /\ in_stack' = in_stack \cup {start}
    /\ pc' = "loop"
    /\ UNCHANGED <<mode, version, filter_substr, fixture, poms, start,
                   graph, visited, cycles, load_order, taken>>

\* should_skip(nbr): record the edge in excluded form, continue
SkipNbr ==
    /\ pc = "loop" /\ stack # <<>> /\ HasNext
    /\ skip(Nbr)
    /\ graph' = AddEdge(graph, Top.node, ExcludedEntry(Nbr))
    /\ stack' = Advance(stack)
    /\ UNCHANGED <<mode, version, filter_substr, fixture, poms, start, test_repo_map,
                   visited, in_stack, cycles, load_order, pc, fetchLog, taken>>

\* variant: a cycle path that is already recorded is not recorded again
BackEdge_Dedup ==
    /\ pc = "loop" /\ stack # <<>> /\ HasNext
    /\ ~skip(Nbr)
    /\ OnStack(Nbr)
    /\ graph' = AddEdge(graph, Top.node, Nbr)
    /\ cycles' = IF \E k \in 1..Len(cycles) : cycles[k] = CyclePath(PathNodes(stack), Nbr)
                 THEN cycles
                 ELSE Append(cycles, CyclePath(PathNodes(stack), Nbr))
    /\ stack' = Advance(stack)
    /\ UNCHANGED <<mode, version, filter_substr, fixture, poms, start, test_repo_map,
                   visited, in_stack, load_order, pc, fetchLog, taken>>

\* nbr in in_stack: record the edge and the cycle, continue
BackEdge ==
    /\ pc = "loop" /\ stack # <<>> /\ HasNext
    /\ ~skip(Nbr)
    /\ OnStack(Nbr)
    /\ graph' = AddEdge(graph, Top.node, Nbr)
    /\ cycles' = Append(cycles, CyclePath(PathNodes(stack), Nbr))
    /\ stack' = Advance(stack)
    /\ UNCHANGED <<mode, version, filter_substr, fixture, poms, start, test_repo_map,
                   visited, in_stack, load_order, pc, fetchLog, taken>>

\* variant: an edge to a visited node is reported as a cycle
VisitedNbr_AsCycle ==
    /\ pc = "loop" /\ stack # <<>> /\ HasNext
    /\ ~skip(Nbr)
    /\ ~OnStack(Nbr)
    /\ AlreadyVisited(Nbr)
    /\ graph' = AddEdge(graph, Top.node, Nbr)
    /\ cycles' = Append(cycles, <<Top.node, Nbr, Top.node>>)
    /\ stack' = Advance(stack)
    /\ taken' = taken \cup {<<Top.node, Nbr>>}
    /\ UNCHANGED <<mode, version, filter_substr, fixture, poms, start, test_repo_map,
                   visited, in_stack, load_order, pc, fetchLog>>

\* nbr in visited: record the edge, continue
VisitedNbr ==
    /\ pc = "loop" /\ stack # <<>> /\ HasNext
    /\ ~skip(Nbr)
    /\ ~OnStack(Nbr)
    /\ AlreadyVisited(Nbr)
    /\ graph' = AddEdge(graph, Top.node, Nbr)
    /\ stack' = Advance(stack)
    /\ taken' = taken \cup {<<Top.node, Nbr>>}
    /\ UNCHANGED <<mode, version, filter_substr, fixture, poms, start, test_repo_map,
                   visited, in_stack, cycles, load_order, pc, fetchLog>>

\* variant: a node whose dependency list comes back empty is not pushed
PushNbr_DropsEmpty ==
    /\ pc = "loop" /\ stack # <<>> /\ HasNext
    /\ ~skip(Nbr)
    /\ ~OnStack(Nbr)
    /\ ~AlreadyVisited(Nbr)
    /\ graph' = AddEdge(graph, Top.node, Nbr)
    /\ fetchLog' = Append(fetchLog, Nbr)
    /\ taken' = taken \cup {<<Top.node, Nbr>>}
    /\ IF deps_of(Nbr, test_repo_map) = <<>>
       THEN /\ stack' = Advance(stack)
            /\ UNCHANGED in_stack
       ELSE /\ in_stack' = in_stack \cup {Nbr}
            /\ stack' = Append(Advance(stack), Frame(Nbr, deps_of(Nbr, test_repo_map)))
    /\ UNCHANGED <<mode, version, filter_substr, fixture, poms, start, test_repo_map,
                   visited, cycles, load_order, pc>>

\* a new node: record the edge, in_stack.add(nbr), push (nbr, iter(get_direct_deps(nbr)))
PushNbr ==
    /\ pc = "loop" /\ stack # <<>> /\ HasNext
    /\ ~skip(Nbr)
    /\ ~OnStack(Nbr)
    /\ ~AlreadyVisited(Nbr)
    /\ graph' = AddEdge(graph, Top.node, Nbr)
    /\ in_stack' = in_stack \cup {Nbr}
    /\ stack' = Append(Advance(stack), Frame(Nbr, deps_of(Nbr, test_repo_map)))
    /\ fetchLog' = Append(fetchLog, Nbr)
    /\ taken' = taken \cup {<<Top.node, Nbr>>}
    /\ UNCHANGED <<mode, version, filter_substr, fixture, poms, start, test_repo_map,
                   visited, cycles, load_order, pc>>

\* StopIteration: pop, in_stack.discard(node), and the post-order emission
Pop ==
    /\ pc = "loop" /\ stack # <<>> /\ ~HasNext
    /\ stack' = PopFrame(stack)
    /\ in_stack' = Discard(in_stack, Top.node)
    /\ IF Top.node \notin visited
       THEN /\ visited' = MarkVisited(visited, Top.node)
            /\ load_order' = Emit(load_order, Top.node)
       ELSE UNCHANGED <<visited, load_order>>
    /\ UNCHANGED <<mode, version, filter_substr, fixture, poms, start, test_repo_map,
                   graph, cycles, pc, fetchLog, taken>>

\* the stack is empty: return graph, visited, cycles, load_order
Return ==
    /\ pc = "loop" /\ stack = <<>>
    /\ pc' = "done"
    /\ UNCHANGED <<mode, version, filter_substr, fixture, poms, start, test_repo_map,
                   graph, visited, in_stack, cycles, load_order, stack, fetchLog, taken>>

Next ==
    \/ LoadFixtureFails
    \/ FilteredRoot
    \/ PushStart
    \/ SkipNbr
    \/ BackEdge
    \/ VisitedNbr
    \/ PushNbr
    \/ Pop
    \/ Return

Spec == Init /\ [][Next]_vars

\* the runs of the test and remote modes; local differs from remote only in
\* the function that reads the POM, whose outcomes poms already covers
FairInit == Init /\ mode # "local"

\* the loop runs to completion once started: every enabled step is taken
FairSpec == FairInit /\ [][Next]_vars /\ WF_vars(Next)

(***************************************************************************)
(* Properties.                                                             *)
(***************************************************************************)
Range(seq) == {seq[i] : i \in 1..Len(seq)}

NoDuplicates(seq) == \A i, j \in 1..Len(seq) : seq[i] = seq[j] => i = j

\* v occurs at a strictly earlier position than u
Precedes(v, u, seq) ==
    \E i, j \in 1..Len(seq) : i < j /\ seq[i] = v /\ seq[j] = u

\* the filter as the specification states it: a configured, non-empty substring
\* that occurs in the identifier when the case of letters is ignored
SameLetter(x, y) ==
    \/ x = y
    \/ {x, y} \in {{"a", "A"}, {"b", "B"}, {"c", "C"}, {"g", "G"}}

Matches(id) ==
    /\ filter_substr # None
    /\ filter_substr # <<>>
    /\ \E off \in 0..(Len(id) - Len(filter_substr)) :
          \A i \in 1..Len(filter_substr) : SameLetter(filter_substr[i], id[off + i])

\* what the provider answers for a node in this run
DirectDeps(u) == get_direct_deps(u, mode, test_repo_map, poms, version)

\* the edge u -> v closed a recorded cycle (it was a back-edge)
ClosesCycle(u, v) ==
    \E k \in 1..Len(cycles) :
        LET c == cycles[k]
        IN  Len(c) >= 2 /\ c[Len(c) - 1] = u /\ c[Len(c)] = v

ResultsEmpty ==
    /\ graph = <<>>
    /\ visited = {}
    /\ cycles = <<>>
    /\ load_order = <<>>

\* C1: in the result, for every edge u -> v taken while u was on top of the
\* stack that was neither excluded by the filter nor a back-edge, v occurs at a
\* strictly earlier position than u in load_order.
C1_TakenEdgesOrdered ==
    pc = "done" =>
        \A e \in taken : Precedes(e[2], e[1], load_order)

\* a finished run that took two or more such edges and also met a cycle
C1_Witness ==
    /\ pc = "done"
    /\ Cardinality(taken) >= 2
    /\ cycles # <<>>

C3_FilteredStartReturnsEmpty ==
    (pc # "start" /\ Matches(start)) =>
        (pc = "done" /\ ResultsEmpty /\ fetchLog = <<>>)

\* C3 amended: a start that matches the filter makes the call return at once
\* with empty results and without a provider fetch, provided that in test mode
\* the fixture file can be read; with an unreadable fixture the call raises
\* before the filter is consulted, still without a provider fetch.
C3_FilteredStartReturnsEmptyIfLoaded ==
    (pc # "start" /\ Matches(start)) =>
        /\ fetchLog = <<>>
        /\ stack = <<>>
        /\ IF mode = "test" /\ ~fixture.readable
           THEN pc = "raised"
           ELSE pc = "done" /\ ResultsEmpty

\* the call returned for a filtered start whose source has dependencies for it
C3_Witness ==
    /\ pc = "done"
    /\ Matches(start)
    /\ DirectDeps(start) # <<>>

\* C4: an identifier that matches the filter is never on the stack, in
\* in_stack, in visited, in load_order, in a cycle or asked of the provider;
\* the edge to it is recorded in excluded form only; and the other neighbours
\* of the same node are recorded and expanded.
C4_ExcludedNeverTraversed ==
    /\ \A id \in Range(PathNodes(stack)) \cup in_stack \cup visited
                 \cup Range(load_order) \cup Range(fetchLog)
                 \cup UNION {Range(cycles[k]) : k \in 1..Len(cycles)} :
           ~Matches(id)
    /\ \A u \in DOMAIN graph : \A e \in graph[u] : ~Matches(e) \/ e \notin Range(DirectDeps(u))
    /\ \A k \in 1..Len(stack) : \A i \in 1..stack[k].pos :
           LET v == stack[k].deps[i]
           IN  IF Matches(v)
               THEN (v \o SkippedSuffix) \in graph[stack[k].node]
               ELSE v \in graph[stack[k].node] /\ v \in in_stack \cup visited
    /\ \A u \in visited : \A v \in Range(DirectDeps(u)) :
           IF Matches(v)
           THEN (v \o SkippedSuffix) \in graph[u]
           ELSE v \in graph[u] /\ v \in in_stack \cup visited

\* a finished run in which a node had an excluded neighbour followed by one
\* that was expanded
C4_Witness ==
    /\ pc = "done"
    /\ \E u \in visited :
          LET ds == DirectDeps(u)
          IN  \E i, j \in 1..Len(ds) :
                 /\ i < j
                 /\ Matches(ds[i])
                 /\ ~Matches(ds[j]) /\ ds[j] # u /\ ds[j] \in visited

\* C5: the provider is called exactly once for each node that is pushed, at
\* its push, and for no other identifier; a node reached again (by a second
\* path or by a back-edge) is not fetched again and still gets the edge.
C5_FetchedOncePerPushedNode ==
    /\ [](/\ NoDuplicates(fetchLog)
          /\ Range(fetchLog) = in_stack \cup visited
          /\ \A k \in 1..Len(stack) : stack[k].node \in Range(fetchLog)
          /\ \A u \in visited : \A v \in Range(DirectDeps(u)) :
                ~Matches(v) => v \in graph[u])
    /\ [][/\ fetchLog' # fetchLog =>
                /\ Len(stack') = Len(stack) + 1
                /\ fetchLog' = Append(fetchLog, stack'[Len(stack')].node)
          /\ Len(stack') > Len(stack) => Len(fetchLog') = Len(fetchLog) + 1]_vars

\* a finished run in which a node was reached by a second path and another by
\* a back-edge, each fetched once
C5_Witness ==
    /\ pc = "done"
    /\ cycles # <<>>
    /\ \E u, w \in visited : \E v \in visited :
          u # w /\ <<u, v>> \in taken /\ <<w, v>> \in taken

\* C6: when the cursor of the top frame yields a non-filtered neighbour n that
\* is in in_stack, exactly one entry is appended to cycles: the suffix of the
\* stack's nodes from the frame of n to the top, followed by n; the entry is
\* closed, all its elements are in in_stack, and n is not pushed.
C6_CycleIsStackSuffix ==
    [][/\ (pc = "loop" /\ stack # <<>> /\ HasNext /\ ~Matches(Nbr) /\ Nbr \in in_stack)
            => cycles' # cycles
       /\ cycles' # cycles =>
            LET n     == Nbr
                nodes == PathNodes(stack)
                c     == cycles'[Len(cycles')]
            IN  /\ ~Matches(n) /\ n \in in_stack
                /\ Len(cycles') = Len(cycles) + 1
                /\ SubSeq(cycles', 1, Len(cycles)) = cycles
                /\ \E k \in 1..Len(nodes) :
                      /\ nodes[k] = n
                      /\ c = SubSeq(nodes, k, Len(nodes)) \o <<n>>
                /\ c[1] = c[Len(c)]
                /\ Range(c) \subseteq in_stack
                /\ PathNodes(stack') = nodes
                /\ in_stack' = in_stack]_vars

\* a cycle was recorded that starts above the bottom of the stack
C6_Witness ==
    /\ cycles # <<>>
    /\ Len(stack) >= 2
    /\ cycles[Len(cycles)][1] # stack[1].node
    /\ cycles[Len(cycles)][1] \in in_stack

Terminated == pc \in {"done", "raised"} /\ stack = <<>>

\* C7: every run terminates with an empty stack, also with cycles, self-loops
\* and nodes reached by two paths.
C7_Terminates == <>Terminated

\* a run over a cycle and a node reached twice has terminated
C7_Witness ==
    /\ pc = "done"
    /\ stack = <<>>
    /\ cycles # <<>>
    /\ Len(load_order) >= 2

\* C8: in_stack is empty when the call starts and when it returns, by the
\* early return of a filtered start as by the end of the loop.
C8_InStackEmptyAtStartAndReturn ==
    pc \in {"start", "done"} => in_stack = {}

\* the loop ended after pushes and pops
C8_Witness ==
    /\ pc = "done"
    /\ in_stack = {}
    /\ Len(fetchLog) >= 3

\* C9: in every state load_order has no duplicate and holds exactly the
\* elements of visited.
C9_LoadOrderIsVisitedOnce ==
    /\ NoDuplicates(load_order)
    /\ Range(load_order) = visited

\* a node was met again after it was emitted
C9_Witness ==
    /\ Len(load_order) >= 2
    /\ \E u \in in_stack : \E v \in visited : v \in graph[u] /\ <<u, v>> \in taken
    /\ \E k \in 1..Len(stack) :
          stack[k].pos >= 2 /\ stack[k].deps[1] = stack[k].deps[2]

\* the non-filtered direct dependencies of a node
LiveDeps(n) == {v \in Range(DirectDeps(n)) : ~Matches(v)}

RECURSIVE ReachableFrom(_)
ReachableFrom(S) ==
    LET T == S \cup UNION {LiveDeps(n) : n \in S}
    IN  IF T = S THEN S ELSE ReachableFrom(T)

\* the nodes reachable from the start through nodes that do not match the filter
LiveNodes == IF Matches(start) THEN {} ELSE ReachableFrom({start})

\* some reachable node reaches itself by one or more edges
LiveCycleExists == \E n \in LiveNodes : n \in ReachableFrom(LiveDeps(n))

\* C10: in the result cycles is non-empty exactly when the subgraph reachable
\* from the start through non-filtered nodes has a directed cycle (a self-loop
\* counts); an edge to a fully expanded node adds no entry.
C10_CyclesIffReachableCycle ==
    pc = "done" => ((cycles # <<>>) <=> LiveCycleExists)

\* a finished run without a cycle in which a node was reached by two paths
C10_Witness ==
    /\ pc = "done"
    /\ cycles = <<>>
    /\ \E u, w \in DOMAIN graph : \E v \in visited :
          u # w /\ v \in graph[u] /\ v \in graph[w]

\* the fetch of a node gives nothing: in the remote/local modes the POM of a
\* coordinate cannot be fetched or parsed, in test mode the identifier is not
\* a key of the fixture
FetchFails(u) ==
    IF mode = "test" THEN fixture.readable /\ u \notin DOMAIN fixture.map
    ELSE /\ HasColon(u)
         /\ LET path == PomPathOf(u, version)
            IN  path \in DOMAIN poms => ~poms[path].ok

\* C11: a failed fetch does not reach the builder: the call never raises for
\* it, the node has an empty dependency list, no outgoing edge in graph, and
\* ends in visited and in load_order when the run returns; so does, in test
\* mode, an identifier absent from the fixture.
C11_FailedFetchIsEmptyNode ==
    /\ pc = "raised" => (mode = "test" /\ ~fixture.readable)
    /\ \A k \in 1..Len(stack) :
          FetchFails(stack[k].node) => stack[k].deps = <<>>
    /\ \A u \in Range(fetchLog) :
          FetchFails(u) =>
             /\ u \notin DOMAIN graph
             /\ u \in in_stack \cup visited
             /\ pc = "done" => (u \in visited /\ u \in Range(load_order))

\* a run in the remote or local mode returned after a dependency whose POM
\* could not be fetched, and expanded another node after it
C11_Witness ==
    /\ pc = "done"
    /\ mode # "test"
    /\ \E i, j \in 1..Len(load_order) :
          /\ i < j
          /\ load_order[i] # start
          /\ FetchFails(load_order[i])
          /\ ~FetchFails(load_order[j])
          /\ load_order[j] # start

\* C12: when the call returns for a start that passed the filter, every key
\* of graph is in visited.
C12_GraphKeysVisited ==
    (pc = "done" /\ ~Matches(start)) => DOMAIN graph \subseteq visited

\* the call returned a graph with two keys, one of them with an excluded edge
C12_Witness ==
    /\ pc = "done"
    /\ ~Matches(start)
    /\ Cardinality(DOMAIN graph) >= 2
    /\ \E u \in DOMAIN graph : \E e \in graph[u] : e \notin visited

\* number of positions of seq that hold x
RECURSIVE Occurrences(_, _)
Occurrences(seq, x) ==
    IF seq = <<>> THEN 0
    ELSE (IF Head(seq) = x THEN 1 ELSE 0) + Occurrences(Tail(seq), x)

\* C14: a start A that does not match the filter and whose only dependency is
\* A gives cycles = [[A, A]], load_order = [A], visited = {A} and
\* graph = {A -> {A}}; and any node that lists itself is pushed once and is
\* once in load_order at return.
C14_SelfLoop ==
    /\ (pc = "done" /\ ~Matches(start) /\ DirectDeps(start) = <<start>>) =>
          /\ cycles = << <<start, start>> >>
          /\ load_order = <<start>>
          /\ visited = {start}
          /\ graph = (start :> {start})
    /\ \A u \in Range(fetchLog) :
          u \in Range(DirectDeps(u)) =>
             /\ Occurrences(fetchLog, u) = 1
             /\ Occurrences(PathNodes(stack), u) <= 1
             /\ Occurrences(load_order, u) <= 1
             /\ pc = "done" => Occurrences(load_order, u) = 1

\* the call returned for a start whose only dependency is itself
C14_Witness ==
    /\ pc = "done"
    /\ ~Matches(start)
    /\ DirectDeps(start) = <<start>>
    /\ cycles # <<>>

\* C15: at the head of the loop in_stack is exactly the set of the nodes of
\* the stack's frames, and no node is in two frames.
C15_InStackMirrorsStack ==
    pc = "loop" =>
        /\ in_stack = Range(PathNodes(stack))
        /\ Cardinality(in_stack) = Len(stack)

\* three frames are on the stack and the top one has met a back-edge
C15_Witness ==
    /\ pc = "loop"
    /\ Len(stack) = 3
    /\ cycles # <<>>

\* number of positions 1..n of the dependency list ds of u that were back-edge
\* encounters: the neighbour passes the filter and the edge was not taken
RECURSIVE BackEdgesIn(_, _, _)
BackEdgesIn(u, ds, n) ==
    IF n = 0 THEN 0
    ELSE (IF ~Matches(ds[n]) /\ <<u, ds[n]>> \notin taken THEN 1 ELSE 0)
         + BackEdgesIn(u, ds, n - 1)

RECURSIVE SumOverFrames(_)
SumOverFrames(k) ==
    IF k = 0 THEN 0
    ELSE BackEdgesIn(stack[k].node, stack[k].deps, stack[k].pos) + SumOverFrames(k - 1)

RECURSIVE SumOverNodes(_)
SumOverNodes(S) ==
    IF S = {} THEN 0
    ELSE LET u == CHOOSE x \in S : TRUE
         IN  BackEdgesIn(u, DirectDeps(u), Len(DirectDeps(u))) + SumOverNodes(S \ {u})

\* the back-edge encounters of the run so far
BackEdgeEncounters == SumOverFrames(Len(stack)) + SumOverNodes(visited)

\* C16: cycles has one entry for each back-edge encounter of the run, also
\* when the same path is met again.
C16_OneEntryPerBackEdge ==
    Len(cycles) = BackEdgeEncounters

\* the same cycle path was recorded twice
C16_Witness ==
    /\ pc = "done"
    /\ \E i, j \in 1..Len(cycles) : i < j /\ cycles[i] = cycles[j]

\* C17: with an unreadable fixture in test mode the call ends with the
\* exception before any traversal: no provider fetch, nothing pushed, no
\* result returned.
C17_UnreadableFixtureAborts ==
    (mode = "test" /\ ~fixture.readable) =>
        /\ pc \in {"start", "raised"}
        /\ fetchLog = <<>>
        /\ stack = <<>>
        /\ in_stack = {}
        /\ ResultsEmpty

\* the call raised for a start that passes the filter
C17_Witness ==
    /\ pc = "raised"
    /\ ~Matches(start)

\* C18: for a start that passes the filter, visited in the result is exactly
\* the set of nodes reachable from the start along paths whose nodes all pass
\* the filter.
C18_VisitedIsReachable ==
    (pc = "done" /\ ~Matches(start)) => visited = LiveNodes

\* the call returned with an excluded neighbour whose own dependency stayed
\* outside visited
C18_Witness ==
    /\ pc = "done"
    /\ ~Matches(start)
    /\ \E u \in visited : \E v \in Range(DirectDeps(u)) :
          Matches(v) /\ \E w \in Range(DirectDeps(v)) : ~Matches(w) /\ w \notin visited

\* y is recorded as a non-excluded neighbour of x
Recorded(x, y) == x \in DOMAIN graph /\ y \in graph[x] /\ ~Matches(y)

\* C19: every entry of cycles is a cycle of the recorded graph (each element
\* is followed by a recorded, non-excluded neighbour of it), and at the head
\* of the loop the stack is a path of the recorded graph from the start.
C19_CyclesAndStackAreRecordedPaths ==
    /\ \A k \in 1..Len(cycles) :
          /\ Len(cycles[k]) >= 2
          /\ \A i \in 1..(Len(cycles[k]) - 1) : Recorded(cycles[k][i], cycles[k][i + 1])
    /\ (pc = "loop" /\ stack # <<>>) =>
          /\ stack[1].node = start
          /\ \A k \in 2..Len(stack) : Recorded(stack[k - 1].node, stack[k].node)

\* a cycle over three nodes was recorded from a stack of three frames
C19_Witness ==
    /\ Len(stack) = 3
    /\ cycles # <<>>
    /\ Len(cycles[Len(cycles)]) = 4

\* C20: in_stack and visited are disjoint in every state; every pop finds its
\* node outside visited, adds exactly that node to visited and appends exactly
\* that node to load_order.
C20_PopAlwaysEmits ==
    /\ [](in_stack \cap visited = {})
    /\ [][Len(stack') < Len(stack) =>
            /\ Top.node \notin visited
            /\ visited' = visited \cup {Top.node}
            /\ Cardinality(visited') = Cardinality(visited) + 1
            /\ load_order' = Append(load_order, Top.node)]_vars

\* a node was popped while another node was already in visited
C20_Witness ==
    /\ Len(load_order) >= 2
    /\ in_stack # {}
    /\ \E u \in in_stack : \E v \in visited : <<u, v>> \in taken

====
